---- MODULE Spec2Model ----
(***************************************************************************)
(* A model of nplab's APT virtual-com-port engine, class APT_VCP of         *)
(* nplab/instrument/apt_virtual_com_port.py: the header codec, the read     *)
(* classifier with its self-calls, query under the communications lock,     *)
(* the channel-state calls and get_hardware_info.                           *)
(***************************************************************************)
EXTENDS Integers, Sequences, FiniteSets, TLC

(* ------------------------------------------------------------------ *)
(* Bounds of the model                                                  *)
(* ------------------------------------------------------------------ *)
\* frames the device puts on the wire in one behaviour
MaxFrames == 2
\* calls the two caller threads make in one behaviour
MaxCalls == 2
\* self-calls of read() one query can nest: the interpreter ends a deeper call
\* with RuntimeError (maximum recursion depth exceeded; the limit is 1000 stack
\* frames unless the program changes it, which this one does not)
MaxDepth == 3

(* ------------------------------------------------------------------ *)
(* Class attributes of APT_VCP                                          *)
(* ------------------------------------------------------------------ *)
\* surprise_message_codes['MGMSG_HW_RESPONSE'] = 0x0080
MGMSG_HW_RESPONSE == 128
\* surprise_message_codes['MGMSG_HW_RICHRESPONSE'] = 0x0081
MGMSG_HW_RICHRESPONSE == 129
\* deque(maxlen = 20)
command_log_maxlen == 20
\* default of the source argument of __init__, 0x01
default_source == 1
\* the length struct.unpack('<I8sHI48s12xHHH', ...) demands: 4+8+2+4+48+12+2+2+2
hardware_info_size == 84

channel_number_to_identity == (1 :> 1) @@ (2 :> 2) @@ (3 :> 4) @@ (4 :> 8)

state_conversion == (TRUE :> 1) @@ (FALSE :> 2)

reverse_state_conversion == (1 :> TRUE) @@ (2 :> FALSE)

serial_num_to_device_types ==
    (20 :> "BSC001") @@ (25 :> "BMS001") @@ (30 :> "BSC002") @@ (35 :> "BMS002") @@
    (40 :> "BSC101") @@ (60 :> "OST001") @@ (63 :> "ODC001") @@ (70 :> "BSC103") @@
    (80 :> "TST001") @@ (73 :> "BBD102/BBD103") @@ (94 :> "BBD102/BBD103")

(* ------------------------------------------------------------------ *)
(* struct.pack / struct.unpack, little-endian                           *)
(* ------------------------------------------------------------------ *)
\* '<H' of a 16-bit value
PackH(v) == <<v % 256, (v \div 256) % 256>>

\* '<I' of a 32-bit value
PackI(v) == <<v % 256, (v \div 256) % 256, (v \div 65536) % 256, (v \div 16777216) % 256>>

UnpackH(b, i) == b[i] + 256 * b[i + 1]

UnpackI(b, i) == b[i] + 256 * b[i + 1] + 65536 * b[i + 2] + 16777216 * b[i + 3]

\* PackShort with the two parameter bytes in the wrong order
PackShort_params_swapped(message_id, param1, param2, dest, src) ==
    PackH(message_id) \o <<param2, param1, dest, src>>

\* struct.pack('<HBBBB', message_id, param1, param2, destination, source)
PackShort(message_id, param1, param2, dest, src) ==
    PackH(message_id) \o <<param1, param2, dest, src>>

\* struct.unpack('<HHBB', header)
UnpackLong(h) ==
    [message |-> UnpackH(h, 1), length |-> UnpackH(h, 3), dest |-> h[5], source |-> h[6]]

\* struct.unpack('<HBBBB', header)
UnpackShort(h) ==
    [message |-> UnpackH(h, 1), param1 |-> h[3], param2 |-> h[4],
     dest |-> h[5], source |-> h[6]]

\* x | 0x80 on a byte
Or80(x) == IF (x \div 128) % 2 = 1 THEN x ELSE x + 128

\* int(str(serialnum)[0:2]): the leading two decimal digits (one below 10)
RECURSIVE LeadingTwo(_)
LeadingTwo(n) == IF n < 100 THEN n ELSE LeadingTwo(n \div 10)

Zeros(n) == [i \in 1..n |-> 0]

\* the fields get_hardware_info keeps of struct.unpack('<I8sHI48s12xHHH', data)
UnpackHardwareInfo(data) ==
    [serial_number |-> UnpackI(data, 1), number_of_channels |-> UnpackH(data, 83)]

(* ------------------------------------------------------------------ *)
(* The environment: caller threads, connection objects, the device      *)
(* ------------------------------------------------------------------ *)
Threads == {"t1", "t2"}

Conns == {"A", "B"}

\* the destination the module's own example constructs with, 0x21
main_destination == 33

\* Python's None, as a message_dict or a return value
None == [none |-> TRUE]

\* an attribute __init__ has not assigned: reading it raises AttributeError
Unset == -1

\* no call made yet on a thread
NoResult == [op |-> "none", channel |-> 0, status |-> "none", value |-> None, exc |-> ""]

NoPending == [kind |-> "none"]

\* the codec has been given nothing
NoCodec == [stage |-> "off"]

\* what the hardware may put on the wire: short frames carry the host address
\* as dest, long frames carry it with the top bit set
HwResponseFrame == PackShort(MGMSG_HW_RESPONSE, 0, 0, default_source, main_destination)

RichFrame ==
    PackH(MGMSG_HW_RICHRESPONSE) \o PackH(2) \o <<Or80(default_source), main_destination>>
        \o <<69, 33>>

\* MGMSG_MOD_GET_CHANENABLESTATE, 0x0212, the answer to MGMSG_MOD_REQ_CHANENABLESTATE
ChanFrame(param1, param2) ==
    PackShort(530, param1, param2, default_source, main_destination)

HardwareInfoPayload(serialnum, nchans) ==
    PackI(serialnum) \o Zeros(8) \o PackH(0) \o PackI(0) \o Zeros(48) \o Zeros(12)
        \o PackH(0) \o PackH(0) \o PackH(nchans)

\* MGMSG_HW_GET_INFO, 0x0006, the answer to MGMSG_HW_REQ_INFO
HardwareInfoFrame(serialnum, nchans) ==
    PackH(6) \o PackH(hardware_info_size) \o <<Or80(default_source), main_destination>>
        \o HardwareInfoPayload(serialnum, nchans)

\* a status update of a device family that has them (MGMSG_MOT_GET_STATUSUPDATE, 0x0481)
StatusFrame == PackH(1153) \o PackH(1) \o <<Or80(default_source), main_destination>> \o <<9>>

\* the answers the hardware may give to a request frame: none to a send-only message
Answers(request) ==
    LET r == UnpackShort(request) IN
    IF r.message = 529 THEN {ChanFrame(r.param1, p) : p \in {1, 2, 3}}
    ELSE IF r.message = 5 THEN {HardwareInfoFrame(400123, 1), HardwareInfoFrame(500123, 2)}
    ELSE {}

\* the channel numbers callers pass: one of 1..4 and the two numbers next to the range
ChannelArgs == {0, 3, 5}

(* ------------------------------------------------------------------ *)
(* State                                                                *)
(* ------------------------------------------------------------------ *)
VARIABLES
    ser_in,               \* per connection: bytes waiting in the port's input buffer
    ser_out,              \* per connection: the frames self.ser.write has sent
    communications_lock,  \* per connection: the thread holding the lock, or "free"
    command_log,          \* the class attribute deque(maxlen = 20)
    status_update_id,     \* surprise_message_codes['Status update id']: {} is None
    source,               \* per connection: self.source
    destination,          \* per connection: self.destination
    serial_number,        \* per connection: self.serial_number
    model,                \* per connection: self.model
    number_of_channels,   \* per connection: self.number_of_channels
    conn,                 \* the connection object each thread calls
    pc,                   \* where each thread is
    call,                 \* the call each thread is in
    depth,                \* how many read() frames are below the running one
    pend,                 \* the long header whose payload read is next
    qret,                 \* message_dict: what query returned to the thread
    result,               \* how the thread's last call ended
    sent,                 \* frames the device has sent
    answered,             \* per connection: the last request frame the device answered
    calls,                \* per thread: calls made
    codec                 \* the header codec run on its own: input, frame, decodings

vars ==
    <<ser_in, ser_out, communications_lock, command_log, status_update_id, source,
      destination, serial_number, model, number_of_channels, conn, pc, call, depth,
      pend, qret, result, sent, answered, calls, codec>>

\* what no thread-local step touches
device_vars == <<ser_in, sent, answered>>

\* what no operation of a connection changes
config_vars == <<status_update_id, source, destination, conn, codec>>

identity_vars == <<serial_number, model, number_of_channels>>

NoQuery == [status |-> "none", value |-> None]

Min(a, b) == IF a <= b THEN a ELSE b

\* the state after __init__ has run its get_hardware_info against a known model,
\* for the connection objects the threads call and the status id the class has
Constructed(conns, status_id, codec_input) ==
    /\ ser_in = [c \in Conns |-> <<>>]
    /\ ser_out = [c \in Conns |-> <<>>]
    /\ communications_lock = [c \in Conns |-> "free"]
    /\ command_log = <<>>
    /\ status_update_id = status_id
    /\ source = [c \in Conns |-> default_source]
    /\ destination = [c \in Conns |-> main_destination]
    /\ serial_number = [c \in Conns |-> 400123]
    /\ model = [c \in Conns |-> serial_num_to_device_types[40]]
    /\ number_of_channels = [c \in Conns |-> 1]
    /\ conn = conns
    /\ pc = [t \in Threads |-> "idle"]
    /\ call = [t \in Threads |-> [op |-> "none", channel |-> 0, state |-> FALSE]]
    /\ depth = [t \in Threads |-> 0]
    /\ pend = [t \in Threads |-> NoPending]
    /\ qret = [t \in Threads |-> NoQuery]
    /\ result = [t \in Threads |-> NoResult]
    /\ sent = 0
    /\ answered = [c \in Conns |-> 0]
    /\ calls = [t \in Threads |-> 0]
    /\ codec = codec_input

\* two threads share one connection; no status-update id is configured
Init == Constructed([t \in Threads |-> "A"], {}, NoCodec)

\* each thread has a connection object of its own
InitTwoConns == Constructed(("t1" :> "A") @@ ("t2" :> "B"), {}, NoCodec)

\* the connection objects before __init__ has run: no attribute is assigned
Unconstructed(conns) ==
    /\ ser_in = [c \in Conns |-> <<>>]
    /\ ser_out = [c \in Conns |-> <<>>]
    /\ communications_lock = [c \in Conns |-> "free"]
    /\ command_log = <<>>
    /\ status_update_id = {}
    /\ source = [c \in Conns |-> Unset]
    /\ destination = [c \in Conns |-> Unset]
    /\ serial_number = [c \in Conns |-> Unset]
    /\ model = [c \in Conns |-> "unset"]
    /\ number_of_channels = [c \in Conns |-> Unset]
    /\ conn = conns
    /\ pc = [t \in Threads |-> "idle"]
    /\ call = [t \in Threads |-> [op |-> "none", channel |-> 0, state |-> FALSE]]
    /\ depth = [t \in Threads |-> 0]
    /\ pend = [t \in Threads |-> NoPending]
    /\ qret = [t \in Threads |-> NoQuery]
    /\ result = [t \in Threads |-> NoResult]
    /\ sent = 0
    /\ answered = [c \in Conns |-> 0]
    /\ calls = [t \in Threads |-> 0]
    /\ codec = NoCodec

\* a device family with status updates: the class has been given their id
InitStatus ==
    Constructed([t \in Threads |-> "A"], {UnpackLong(StatusFrame).message}, NoCodec)

\* each thread is about to construct a connection object of its own
InitConstruct == Unconstructed(("t1" :> "A") @@ ("t2" :> "B"))

(* ------------------------------------------------------------------ *)
(* How a call ends                                                      *)
(* ------------------------------------------------------------------ *)
Raised(c, exc) ==
    [op |-> c.op, channel |-> c.channel, status |-> "raised", value |-> None, exc |-> exc]

Returned(c, v) ==
    [op |-> c.op, channel |-> c.channel, status |-> "returned", value |-> v, exc |-> ""]

\* ChannelStateResult with a default for a wire value that is not in the table
ChannelStateResult_default(c, message_dict) ==
    IF message_dict = None THEN Raised(c, "TypeError")
    ELSE IF "param2" \notin DOMAIN message_dict THEN Raised(c, "KeyError")
    ELSE IF message_dict.param2 \notin DOMAIN reverse_state_conversion
        THEN Returned(c, [bool |-> FALSE])
    ELSE Returned(c, [bool |-> reverse_state_conversion[message_dict.param2]])

\* lines 163-164: reverse_state_conversion[message_dict['param2']]
ChannelStateResult(c, message_dict) ==
    IF message_dict = None THEN Raised(c, "TypeError")
    ELSE IF "param2" \notin DOMAIN message_dict THEN Raised(c, "KeyError")
    ELSE IF message_dict.param2 \notin DOMAIN reverse_state_conversion
        THEN Raised(c, "KeyError")
    ELSE Returned(c, [bool |-> reverse_state_conversion[message_dict.param2]])

\* QueryRaise that leaves the lock with the thread that failed
QueryRaise_keeps_lock(t, exc) ==
    /\ communications_lock' = communications_lock
    /\ qret' = [qret EXCEPT ![t] = [status |-> "raised", value |-> None]]
    /\ result' = [result EXCEPT ![t] = Raised(call[t], exc)]
    /\ pc' = [pc EXCEPT ![t] = "idle"]
    /\ depth' = [depth EXCEPT ![t] = 0]
    /\ pend' = [pend EXCEPT ![t] = NoPending]

\* the with block of query is left by an exception: the lock is released and the
\* exception reaches the caller of get_channel_state / get_hardware_info
QueryRaise(t, exc) ==
    /\ communications_lock' = [communications_lock EXCEPT ![conn[t]] = "free"]
    /\ qret' = [qret EXCEPT ![t] = [status |-> "raised", value |-> None]]
    /\ result' = [result EXCEPT ![t] = Raised(call[t], exc)]
    /\ pc' = [pc EXCEPT ![t] = "idle"]
    /\ depth' = [depth EXCEPT ![t] = 0]
    /\ pend' = [pend EXCEPT ![t] = NoPending]

\* return self.read() of query: the with block releases the lock and the caller goes on
QueryReturn(t, v) ==
    /\ communications_lock' = [communications_lock EXCEPT ![conn[t]] = "free"]
    /\ qret' = [qret EXCEPT ![t] = [status |-> "returned", value |-> v]]
    /\ depth' = [depth EXCEPT ![t] = 0]
    /\ pend' = [pend EXCEPT ![t] = NoPending]
    /\ IF call[t].op = "get_channel_state"
        THEN /\ result' = [result EXCEPT ![t] = ChannelStateResult(call[t], v)]
             /\ pc' = [pc EXCEPT ![t] = "idle"]
        ELSE IF call[t].op = "query"
        \* query called by the user of the class: the message is the result
        THEN /\ result' = [result EXCEPT ![t] = Returned(call[t], v)]
             /\ pc' = [pc EXCEPT ![t] = "idle"]
        ELSE /\ result' = result
             /\ pc' = [pc EXCEPT ![t] = "ghi_decode"]

\* the running read() returns returned_message: the read() that query called gets it
\* only when no self.read() frame is above it, since lines 99, 106 and 114 drop
\* the value of the inner call and fall off the end of the function
ReadReturn(t, returned_message) ==
    QueryReturn(t, IF depth[t] = 0 THEN returned_message ELSE None)

(* ------------------------------------------------------------------ *)
(* The device                                                           *)
(* ------------------------------------------------------------------ *)
\* frames the hardware sends unasked: the two hardware responses, and status
\* updates when the device family has a status-update id
UnsolicitedFrames ==
    {HwResponseFrame, RichFrame} \cup (IF status_update_id = {} THEN {} ELSE {StatusFrame})

\* the hardware puts an unsolicited frame into the input buffer of a port in use
DeviceSend(c, f) ==
    /\ sent < MaxFrames
    /\ c \in {conn[t] : t \in Threads}
    /\ f \in UnsolicitedFrames
    /\ sent' = sent + 1
    /\ ser_in' = [ser_in EXCEPT ![c] = @ \o f]
    /\ UNCHANGED <<answered, ser_out, communications_lock, command_log, config_vars,
                   identity_vars, pc, call, depth, pend, qret, result, calls>>

\* where a frame may be cut off by the read timeout: inside its header, or one
\* byte before the end of its payload
Cuts(f) == {3} \cup (IF Len(f) > 6 THEN {Len(f) - 1} ELSE {})

\* only the head of a rich response arrives: the rest does not come before the
\* timeout of the reads that wait for it
DeviceSendTruncated(c, k) ==
    /\ sent < MaxFrames
    /\ c \in {conn[t] : t \in Threads}
    /\ k \in Cuts(RichFrame)
    /\ sent' = sent + 1
    /\ ser_in' = [ser_in EXCEPT ![c] = @ \o SubSeq(RichFrame, 1, k)]
    /\ UNCHANGED <<answered, ser_out, communications_lock, command_log, config_vars,
                   identity_vars, pc, call, depth, pend, qret, result, calls>>

\* only the head of the answer to the oldest unanswered request arrives
DeviceReplyTruncated(c) ==
    /\ sent < MaxFrames
    /\ \E i \in (answered[c] + 1)..Len(ser_out[c]) :
           /\ Answers(ser_out[c][i]) # {}
           /\ \A j \in (answered[c] + 1)..(i - 1) : Answers(ser_out[c][j]) = {}
           /\ answered' = [answered EXCEPT ![c] = i]
           /\ \E f \in Answers(ser_out[c][i]) :
                  \E k \in Cuts(f) :
                      ser_in' = [ser_in EXCEPT ![c] = @ \o SubSeq(f, 1, k)]
    /\ sent' = sent + 1
    /\ UNCHANGED <<ser_out, communications_lock, command_log, config_vars,
                   identity_vars, pc, call, depth, pend, qret, result, calls>>

\* a device that floods: whenever the host has emptied the input buffer it puts
\* another unsolicited hardware response there, without end
DeviceFlood(c, f) ==
    /\ c \in {conn[t] : t \in Threads}
    /\ ser_in[c] = <<>>
    /\ f \in {HwResponseFrame, RichFrame}
    /\ ser_in' = [ser_in EXCEPT ![c] = f]
    /\ UNCHANGED <<sent, answered, ser_out, communications_lock, command_log,
                   config_vars, identity_vars, pc, call, depth, pend, qret, result,
                   calls>>

\* the request frames of a connection the hardware has still to answer, by position:
\* it answers in the order sent and owes no answer to a send-only message
Unanswered(c) == {i \in (answered[c] + 1)..Len(ser_out[c]) : Answers(ser_out[c][i]) # {}}

\* the hardware answers the oldest request it has not answered
DeviceReply(c) ==
    /\ sent < MaxFrames
    /\ Unanswered(c) # {}
    /\ LET i == CHOOSE i \in Unanswered(c) : \A j \in Unanswered(c) : i <= j IN
       /\ answered' = [answered EXCEPT ![c] = i]
       /\ \E f \in Answers(ser_out[c][i]) : ser_in' = [ser_in EXCEPT ![c] = @ \o f]
    /\ sent' = sent + 1
    /\ UNCHANGED <<ser_out, communications_lock, command_log, config_vars,
                   identity_vars, pc, call, depth, pend, qret, result, calls>>

(* ------------------------------------------------------------------ *)
(* The calls                                                            *)
(* ------------------------------------------------------------------ *)
\* WriteFrame that also appends the id to the class's command_log
WriteFrame_logged(c, message_id, param1, param2) ==
    /\ ser_out' = [ser_out EXCEPT ![c] =
                      Append(@, PackShort(message_id, param1, param2, destination[c], source[c]))]
    /\ command_log' =
           IF Len(command_log) = command_log_maxlen
               THEN Append(Tail(command_log), message_id)
               ELSE Append(command_log, message_id)

\* write(): pack the frame with self.destination and self.source, self.ser.write it
\* and nothing else: command_log is not appended to. Without the attribute
\* self.destination the pack expression raises before self.ser.write is reached
WriteFrame(c, message_id, param1, param2) ==
    /\ ser_out' = IF destination[c] = Unset
                      THEN ser_out
                      ELSE [ser_out EXCEPT ![c] =
                               Append(@, PackShort(message_id, param1, param2,
                                                   destination[c], source[c]))]
    /\ command_log' = command_log

\* the calls all threads have made
CallsMade == calls["t1"] + calls["t2"]

StartCall(t, c) ==
    /\ pc[t] = "idle"
    /\ CallsMade < MaxCalls
    /\ calls' = [calls EXCEPT ![t] = @ + 1]
    /\ call' = [call EXCEPT ![t] = c]

\* identify(): self.write(0x0223), outside any lock
identify(t) ==
    /\ StartCall(t, [op |-> "identify", channel |-> 0, state |-> FALSE])
    /\ WriteFrame(conn[t], 547, 0, 0)
    /\ result' = [result EXCEPT ![t] =
                     IF destination[conn[t]] = Unset
                         THEN Raised(call'[t], "AttributeError")
                         ELSE Returned(call'[t], None)]
    /\ UNCHANGED <<device_vars, communications_lock, config_vars, identity_vars, pc,
                   depth, pend, qret>>

\* set_channel_state that sends its frame before it looks the channel up
set_channel_state_sends_first(t, channel_number, new_state) ==
    /\ StartCall(t, [op |-> "set_channel_state", channel |-> channel_number,
                     state |-> new_state])
    /\ WriteFrame(conn[t], 528, channel_number, state_conversion[new_state])
    /\ result' = [result EXCEPT ![t] =
                     IF channel_number \notin DOMAIN channel_number_to_identity
                         THEN Raised(call'[t], "KeyError")
                         ELSE Returned(call'[t], None)]
    /\ UNCHANGED <<device_vars, communications_lock, config_vars, identity_vars, pc,
                   depth, pend, qret>>

\* set_channel_state(channel_number, new_state): the two table lookups, then
\* self.write(message = 0x0210, param_1 = ..., param_2 = ...), whose keywords are
\* not parameters of write(self, message_id, param1, param2): TypeError at the call
set_channel_state(t, channel_number, new_state) ==
    /\ StartCall(t, [op |-> "set_channel_state", channel |-> channel_number,
                     state |-> new_state])
    /\ result' = [result EXCEPT ![t] =
                     IF channel_number \notin DOMAIN channel_number_to_identity
                         THEN Raised(call'[t], "KeyError")
                     ELSE IF new_state \notin DOMAIN state_conversion
                         THEN Raised(call'[t], "KeyError")
                     ELSE Raised(call'[t], "TypeError")]
    /\ UNCHANGED <<device_vars, ser_out, communications_lock, command_log, config_vars,
                   identity_vars, pc, depth, pend, qret>>

\* get_channel_state(channel_number): the lookup of the argument, then query(0x0211, ...)
get_channel_state(t, channel_number) ==
    /\ StartCall(t, [op |-> "get_channel_state", channel |-> channel_number,
                     state |-> FALSE])
    /\ IF channel_number \notin DOMAIN channel_number_to_identity
        THEN /\ result' = [result EXCEPT ![t] = Raised(call'[t], "KeyError")]
             /\ UNCHANGED <<pc, qret>>
        ELSE /\ pc' = [pc EXCEPT ![t] = "q_lock"]
             /\ qret' = [qret EXCEPT ![t] = [status |-> "running", value |-> None]]
             /\ UNCHANGED result
    /\ UNCHANGED <<device_vars, ser_out, communications_lock, command_log, config_vars,
                   identity_vars, depth, pend>>

\* get_hardware_info(): query(0x0005) first
get_hardware_info(t) ==
    /\ StartCall(t, [op |-> "get_hardware_info", channel |-> 0, state |-> FALSE])
    /\ pc' = [pc EXCEPT ![t] = "q_lock"]
    /\ qret' = [qret EXCEPT ![t] = [status |-> "running", value |-> None]]
    /\ UNCHANGED <<device_vars, ser_out, communications_lock, command_log, config_vars,
                   identity_vars, depth, pend, result>>

\* the destination arguments of __init__: None (the default) and the example's 0x21
ConstructorDestinations == {Unset, main_destination}

\* __init__(port, source, destination): the base class opens the port, self.source
\* is set, self.destination is set unless the argument is None (Unset here), and
\* get_hardware_info() is called; the thread makes one object
__init__(t, src, dest) ==
    /\ call[t].op = "none"
    /\ StartCall(t, [op |-> "__init__", channel |-> 0, state |-> FALSE])
    /\ source' = [source EXCEPT ![conn[t]] = src]
    /\ destination' = IF dest = Unset
                          THEN destination
                          ELSE [destination EXCEPT ![conn[t]] = dest]
    /\ pc' = [pc EXCEPT ![t] = "q_lock"]
    /\ qret' = [qret EXCEPT ![t] = [status |-> "running", value |-> None]]
    /\ UNCHANGED <<device_vars, ser_out, communications_lock, command_log,
                   status_update_id, conn, codec, identity_vars, depth, pend, result>>

\* query(message_id) called by the user of the class, with param1 = param2 = 0
query(t, message_id) ==
    /\ StartCall(t, [op |-> "query", channel |-> 0, state |-> FALSE,
                     message_id |-> message_id])
    /\ pc' = [pc EXCEPT ![t] = "q_lock"]
    /\ qret' = [qret EXCEPT ![t] = [status |-> "running", value |-> None]]
    /\ UNCHANGED <<device_vars, ser_out, communications_lock, command_log, config_vars,
                   identity_vars, depth, pend, result>>

\* the request query sends for the call the thread is in
QueryId(c) ==
    IF c.op = "get_channel_state" THEN 529
    ELSE IF c.op = "query" THEN c.message_id
    ELSE 5

QueryParam1(c) ==
    IF c.op = "get_channel_state" THEN channel_number_to_identity[c.channel] ELSE 0

(* ------------------------------------------------------------------ *)
(* query(): with self.communications_lock: flush, write, return read()  *)
(* ------------------------------------------------------------------ *)
\* communications_lock of the instrument base class: a re-entrant lock of the
\* connection, which admits a thread when no other thread holds it
LockAdmits(c, t) == communications_lock[c] \in {"free", t}

\* flush_input_buffer of the serial base class: what the port has buffered is dropped
FlushInputBuffer(c) == ser_in' = [ser_in EXCEPT ![c] = <<>>]

\* query_acquire without the wait: query as if it had no with block
query_acquire_no_wait(t) ==
    /\ pc[t] = "q_lock"
    /\ communications_lock' = [communications_lock EXCEPT ![conn[t]] = t]
    /\ pc' = [pc EXCEPT ![t] = "q_flush"]
    /\ UNCHANGED <<device_vars, ser_out, command_log, config_vars, identity_vars, call,
                   depth, pend, qret, result, calls>>

\* with self.communications_lock: the thread waits for the lock and takes it
query_acquire(t) ==
    /\ pc[t] = "q_lock"
    /\ LockAdmits(conn[t], t)
    /\ communications_lock' = [communications_lock EXCEPT ![conn[t]] = t]
    /\ pc' = [pc EXCEPT ![t] = "q_flush"]
    /\ UNCHANGED <<device_vars, ser_out, command_log, config_vars, identity_vars, call,
                   depth, pend, qret, result, calls>>

\* query_flush that leaves the input buffer as it is
query_flush_keeps_buffer(t) ==
    /\ pc[t] = "q_flush"
    /\ pc' = [pc EXCEPT ![t] = "q_write"]
    /\ UNCHANGED <<device_vars, ser_out, communications_lock, command_log,
                   config_vars, identity_vars, call, depth, pend, qret, result,
                   calls>>

\* self.flush_input_buffer()
query_flush(t) ==
    /\ pc[t] = "q_flush"
    /\ FlushInputBuffer(conn[t])
    /\ pc' = [pc EXCEPT ![t] = "q_write"]
    /\ UNCHANGED <<sent, answered, ser_out, communications_lock, command_log,
                   config_vars, identity_vars, call, depth, pend, qret, result,
                   calls>>

\* query_write that sends to address 0 when the connection has no destination
query_write_unaddressed(t) ==
    /\ pc[t] = "q_write"
    /\ ser_out' = [ser_out EXCEPT ![conn[t]] =
                      Append(@, PackShort(QueryId(call[t]), QueryParam1(call[t]), 0,
                                          IF destination[conn[t]] = Unset
                                              THEN 0 ELSE destination[conn[t]],
                                          source[conn[t]]))]
    /\ command_log' = command_log
    /\ pc' = [pc EXCEPT ![t] = "q_read"]
    /\ UNCHANGED <<device_vars, communications_lock, config_vars, identity_vars, call,
                   depth, pend, qret, result, calls>>

\* self.write(message_id, param1, param2); an exception of write leaves the with block
query_write(t) ==
    /\ pc[t] = "q_write"
    /\ WriteFrame(conn[t], QueryId(call[t]), QueryParam1(call[t]), 0)
    /\ IF destination[conn[t]] = Unset
           THEN QueryRaise(t, "AttributeError")
           ELSE /\ pc' = [pc EXCEPT ![t] = "q_read"]
                /\ UNCHANGED <<communications_lock, depth, pend, qret, result>>
    /\ UNCHANGED <<device_vars, config_vars, identity_vars, call, calls>>

(* ------------------------------------------------------------------ *)
(* read(): the header read and the classification, lines 89-128         *)
(* ------------------------------------------------------------------ *)
\* self.surprise_message_codes.values()
SurpriseIds == {MGMSG_HW_RESPONSE, MGMSG_HW_RICHRESPONSE} \cup status_update_id

\* a consumed frame is logged and self.read() is called again, one frame deeper;
\* at the recursion limit the call raises and the exception leaves every read()
\* below it and the with block of query
ReadAgain(t) ==
    IF depth[t] >= MaxDepth
        THEN QueryRaise(t, "RuntimeError")
        ELSE /\ depth' = [depth EXCEPT ![t] = @ + 1]
             /\ pend' = [pend EXCEPT ![t] = NoPending]
             /\ pc' = [pc EXCEPT ![t] = "q_read"]
             /\ UNCHANGED <<communications_lock, qret, result>>

\* the payload read self.ser.read(length) is the next step of the thread
ReadPayloadNext(t, kind, h) ==
    /\ pend' = [pend EXCEPT ![t] = [kind |-> kind, header |-> h]]
    /\ pc' = [pc EXCEPT ![t] = "q_data"]
    /\ UNCHANGED <<communications_lock, qret, result, depth>>

\* line 117: self.source|0x80 == dest, with the source the connection was given
IsLongForm(c, h) == Or80(source[c]) = h.dest

\* Classify that hands a MGMSG_HW_RESPONSE frame back to the caller
Classify_returns_hw_response(t, header) ==
    LET h == UnpackLong(header) IN
    IF h.message \in SurpriseIds
        THEN IF h.message = MGMSG_HW_RESPONSE
                 THEN ReadReturn(t, UnpackShort(header))
             ELSE IF h.message = MGMSG_HW_RICHRESPONSE
                 THEN ReadPayloadNext(t, "rich", h)
             ELSE IF command_log = <<>>
                 \* self.command_log[-1] of an empty deque
                 THEN QueryRaise(t, "IndexError")
             ELSE IF command_log[Len(command_log)] \in status_update_id
                 THEN ReadPayloadNext(t, "status", h)
             \* no branch of the if taken: the function ends without a return
             ELSE QueryReturn(t, None)
        ELSE IF IsLongForm(conn[t], h)
                 THEN ReadPayloadNext(t, "data", h)
             ELSE ReadReturn(t, UnpackShort(header))

\* lines 92-128 on a full header
Classify(t, header) ==
    LET h == UnpackLong(header) IN
    IF h.message \in SurpriseIds
        THEN IF h.message = MGMSG_HW_RESPONSE
                 THEN ReadAgain(t)
             ELSE IF h.message = MGMSG_HW_RICHRESPONSE
                 THEN ReadPayloadNext(t, "rich", h)
             ELSE IF command_log = <<>>
                 \* self.command_log[-1] of an empty deque
                 THEN QueryRaise(t, "IndexError")
             ELSE IF command_log[Len(command_log)] \in status_update_id
                 THEN ReadPayloadNext(t, "status", h)
             \* no branch of the if taken: the function ends without a return
             ELSE QueryReturn(t, None)
        ELSE IF IsLongForm(conn[t], h)
                 THEN ReadPayloadNext(t, "data", h)
             ELSE ReadReturn(t, UnpackShort(header))

\* read_header that reads again when the timeout has passed with no full header
read_header_retries(t) ==
    /\ pc[t] = "q_read"
    /\ LET c == conn[t]
           n == Min(6, Len(ser_in[c]))
           header == SubSeq(ser_in[c], 1, n)
       IN /\ ser_in' = [ser_in EXCEPT ![c] = SubSeq(@, n + 1, Len(@))]
          /\ IF n < 6
                 THEN UNCHANGED <<communications_lock, qret, result, pc, depth, pend>>
                 ELSE Classify(t, header)
    /\ UNCHANGED <<sent, answered, ser_out, command_log, config_vars, identity_vars, call, calls>>

\* header = bytearray(self.ser.read(6)): six bytes, or what came before the timeout;
\* struct.unpack('<HHBB', header) raises struct.error on fewer than six
read_header(t) ==
    /\ pc[t] = "q_read"
    /\ LET c == conn[t]
           n == Min(6, Len(ser_in[c]))
           header == SubSeq(ser_in[c], 1, n)
       IN /\ ser_in' = [ser_in EXCEPT ![c] = SubSeq(@, n + 1, Len(@))]
          /\ IF n < 6
                 THEN QueryRaise(t, "struct.error")
                 ELSE Classify(t, header)
    /\ UNCHANGED <<sent, answered, ser_out, command_log, config_vars, identity_vars, call, calls>>

\* data = self.ser.read(length), then what the branch does with the message
read_data(t) ==
    /\ pc[t] = "q_data"
    /\ LET c == conn[t]
           h == pend[t].header
           n == Min(h.length, Len(ser_in[c]))
           returned_message ==
               [message |-> h.message, length |-> h.length, dest |-> h.dest,
                source |-> h.source, data |-> SubSeq(ser_in[c], 1, n)]
       IN /\ ser_in' = [ser_in EXCEPT ![c] = SubSeq(@, n + 1, Len(@))]
          /\ IF pend[t].kind = "rich"
                 THEN ReadAgain(t)
             ELSE IF pend[t].kind = "status"
                 \* update_status(self) of the base class takes no message
                 THEN QueryRaise(t, "TypeError")
             ELSE ReadReturn(t, returned_message)
    /\ UNCHANGED <<sent, answered, ser_out, command_log, config_vars, identity_vars, call, calls>>

(* ------------------------------------------------------------------ *)
(* get_hardware_info() after its query, lines 180-187: the lock has    *)
(* been released, and each assignment is a step other threads may        *)
(* run between                                                           *)
(* ------------------------------------------------------------------ *)
\* lines 180-184: the unpack of message_dict['data'] and self.serial_number = serialnum
hardware_info_decode(t) ==
    /\ pc[t] = "ghi_decode"
    /\ LET c == conn[t]
           message_dict == qret[t].value
       IN IF message_dict = None
              THEN /\ result' = [result EXCEPT ![t] = Raised(call[t], "TypeError")]
                   /\ pc' = [pc EXCEPT ![t] = "idle"]
                   /\ UNCHANGED identity_vars
          ELSE IF "data" \notin DOMAIN message_dict
              THEN /\ result' = [result EXCEPT ![t] = Raised(call[t], "KeyError")]
                   /\ pc' = [pc EXCEPT ![t] = "idle"]
                   /\ UNCHANGED identity_vars
          ELSE IF Len(message_dict.data) # hardware_info_size
              THEN /\ result' = [result EXCEPT ![t] = Raised(call[t], "struct.error")]
                   /\ pc' = [pc EXCEPT ![t] = "idle"]
                   /\ UNCHANGED identity_vars
          ELSE LET info == UnpackHardwareInfo(message_dict.data) IN
               /\ serial_number' = [serial_number EXCEPT ![c] = info.serial_number]
               /\ pc' = [pc EXCEPT ![t] = "ghi_model"]
               /\ UNCHANGED <<model, number_of_channels, result>>
    /\ UNCHANGED <<device_vars, ser_out, communications_lock, command_log, config_vars,
                   call, depth, pend, qret, calls>>

\* line 185: self.model = self.serial_num_to_device_types[int(str(serialnum)[0:2])],
\* with the serialnum this call unpacked
hardware_info_model(t) ==
    /\ pc[t] = "ghi_model"
    /\ LET c == conn[t]
           info == UnpackHardwareInfo(qret[t].value.data)
       IN IF LeadingTwo(info.serial_number) \in DOMAIN serial_num_to_device_types
              THEN /\ model' = [model EXCEPT ![c] =
                          serial_num_to_device_types[LeadingTwo(info.serial_number)]]
                   /\ pc' = [pc EXCEPT ![t] = "ghi_channels"]
                   /\ UNCHANGED result
              \* the table lookup raises after line 184 has run
              ELSE /\ result' = [result EXCEPT ![t] = Raised(call[t], "KeyError")]
                   /\ pc' = [pc EXCEPT ![t] = "idle"]
                   /\ UNCHANGED model
    /\ UNCHANGED <<device_vars, ser_out, communications_lock, command_log, config_vars,
                   serial_number, number_of_channels, call, depth, pend, qret, calls>>

\* lines 186-187: self.number_of_channels = nchans and the return of the dictionary
hardware_info_channels(t) ==
    /\ pc[t] = "ghi_channels"
    /\ LET c == conn[t]
           info == UnpackHardwareInfo(qret[t].value.data)
       IN /\ number_of_channels' =
                 [number_of_channels EXCEPT ![c] = info.number_of_channels]
          \* __init__ prints the dictionary and returns nothing
          /\ result' = [result EXCEPT ![t] =
                 Returned(call[t], IF call[t].op = "__init__" THEN None ELSE info)]
    /\ pc' = [pc EXCEPT ![t] = "idle"]
    /\ UNCHANGED <<device_vars, ser_out, communications_lock, command_log, config_vars,
                   serial_number, model, call, depth, pend, qret, calls>>

(* ------------------------------------------------------------------ *)
(* The specification                                                    *)
(* ------------------------------------------------------------------ *)
Next ==
    \/ \E c \in Conns, f \in {HwResponseFrame, RichFrame, StatusFrame} : DeviceSend(c, f)
    \/ \E c \in Conns : DeviceReply(c)
    \/ \E t \in Threads : identify(t)
    \/ \E t \in Threads, ch \in ChannelArgs, st \in BOOLEAN : set_channel_state(t, ch, st)
    \/ \E t \in Threads, ch \in ChannelArgs : get_channel_state(t, ch)
    \/ \E t \in Threads : get_hardware_info(t)
    \/ \E t \in Threads : query_acquire(t)
    \/ \E t \in Threads : query_flush(t)
    \/ \E t \in Threads : query_write(t)
    \/ \E t \in Threads : read_header(t)
    \/ \E t \in Threads : read_data(t)
    \/ \E t \in Threads : hardware_info_decode(t)
    \/ \E t \in Threads : hardware_info_model(t)
    \/ \E t \in Threads : hardware_info_channels(t)

Spec == Init /\ [][Next]_vars

\* the callers of two connections issue commands of both kinds: a send-only one
\* (identify) and a query (get_hardware_info)
NextTwoConns ==
    \/ \E c \in Conns, f \in {HwResponseFrame, RichFrame, StatusFrame} : DeviceSend(c, f)
    \/ \E c \in Conns : DeviceReply(c)
    \/ \E t \in Threads : identify(t)
    \/ \E t \in Threads : get_hardware_info(t)
    \/ \E t \in Threads : query_acquire(t)
    \/ \E t \in Threads : query_flush(t)
    \/ \E t \in Threads : query_write(t)
    \/ \E t \in Threads : read_header(t)
    \/ \E t \in Threads : read_data(t)
    \/ \E t \in Threads : hardware_info_decode(t)
    \/ \E t \in Threads : hardware_info_model(t)
    \/ \E t \in Threads : hardware_info_channels(t)

SpecTwoConns == InitTwoConns /\ [][NextTwoConns]_vars

\* two callers construct a connection each, with and without a destination
NextConstruct ==
    \/ \E c \in Conns, f \in {HwResponseFrame, RichFrame, StatusFrame} : DeviceSend(c, f)
    \/ \E c \in Conns : DeviceReply(c)
    \/ \E t \in Threads, dest \in ConstructorDestinations :
           __init__(t, default_source, dest)
    \/ \E t \in Threads : query_acquire(t)
    \/ \E t \in Threads : query_flush(t)
    \/ \E t \in Threads : query_write(t)
    \/ \E t \in Threads : read_header(t)
    \/ \E t \in Threads : read_data(t)
    \/ \E t \in Threads : hardware_info_decode(t)
    \/ \E t \in Threads : hardware_info_model(t)
    \/ \E t \in Threads : hardware_info_channels(t)

SpecConstruct == InitConstruct /\ [][NextConstruct]_vars

\* a flooding device and callers of get_hardware_info on one connection; no
\* addressed response is ever sent
NextFlood ==
    \/ \E c \in Conns, f \in {HwResponseFrame, RichFrame} : DeviceFlood(c, f)
    \/ \E t \in Threads : get_hardware_info(t)
    \/ \E t \in Threads : query_acquire(t)
    \/ \E t \in Threads : query_flush(t)
    \/ \E t \in Threads : query_write(t)
    \/ \E t \in Threads : read_header(t)
    \/ \E t \in Threads : read_data(t)

\* a thread inside query goes on running: the lock is handed to a waiting thread
\* when it is free, and every self.ser.read comes back after the port's timeout
\* of one second at the latest (port_settings, line 51)
FairFlood ==
    \A t \in Threads :
        WF_vars(query_acquire(t) \/ query_flush(t) \/ query_write(t)
                    \/ read_header(t) \/ read_data(t))

SpecFlood == Init /\ [][NextFlood]_vars /\ FairFlood

\* a transport that loses the tail of frames: callers of get_hardware_info on
\* one connection
NextTruncated ==
    \/ \E c \in Conns, k \in Cuts(RichFrame) : DeviceSendTruncated(c, k)
    \/ \E c \in Conns : DeviceReplyTruncated(c)
    \/ \E t \in Threads : get_hardware_info(t)
    \/ \E t \in Threads : query_acquire(t)
    \/ \E t \in Threads : query_flush(t)
    \/ \E t \in Threads : query_write(t)
    \/ \E t \in Threads : read_header(t)
    \/ \E t \in Threads : read_data(t)
    \/ \E t \in Threads : hardware_info_decode(t)
    \/ \E t \in Threads : hardware_info_model(t)
    \/ \E t \in Threads : hardware_info_channels(t)

SpecTruncated == Init /\ [][NextTruncated]_vars

\* a device family with status updates: callers of get_hardware_info and of
\* query with the status-update id on one connection
NextStatus ==
    \/ \E c \in Conns, f \in {HwResponseFrame, RichFrame, StatusFrame} : DeviceSend(c, f)
    \/ \E c \in Conns : DeviceReply(c)
    \/ \E t \in Threads : get_hardware_info(t)
    \/ \E t \in Threads, id \in status_update_id : query(t, id)
    \/ \E t \in Threads : query_acquire(t)
    \/ \E t \in Threads : query_flush(t)
    \/ \E t \in Threads : query_write(t)
    \/ \E t \in Threads : read_header(t)
    \/ \E t \in Threads : read_data(t)
    \/ \E t \in Threads : hardware_info_decode(t)
    \/ \E t \in Threads : hardware_info_model(t)
    \/ \E t \in Threads : hardware_info_channels(t)

SpecStatus == InitStatus /\ [][NextStatus]_vars

(* ------------------------------------------------------------------ *)
(* The header codec on its own                                          *)
(* ------------------------------------------------------------------ *)
\* the values the codec is run on: the ends of each field's range and the ids in use
CodecIds == {0, 5, 128, 129, 255, 256, 529, 65535}

CodecParams == {0, 1, 2, 255}

CodecAddresses == {1, 33, 255}

CodecInputs ==
    [stage : {"input"}, message_id : CodecIds, param1 : CodecParams,
     param2 : CodecParams, dest : CodecAddresses, source : CodecAddresses]

InitCodec == \E i \in CodecInputs : Constructed([t \in Threads |-> "A"], {}, i)

\* the pack of write(), lines 134-135
codec_pack ==
    /\ codec.stage = "input"
    /\ codec' = [stage |-> "packed", message_id |-> codec.message_id,
                 param1 |-> codec.param1, param2 |-> codec.param2, dest |-> codec.dest,
                 source |-> codec.source,
                 frame |-> PackShort(codec.message_id, codec.param1, codec.param2,
                                     codec.dest, codec.source)]
    /\ UNCHANGED <<device_vars, ser_out, communications_lock, command_log,
                   status_update_id, source, destination, conn, identity_vars, pc, call,
                   depth, pend, qret, result, calls>>

\* the two unpacks of read(), lines 90 and 94
codec_unpack ==
    /\ codec.stage = "packed"
    /\ codec' = [stage |-> "unpacked", message_id |-> codec.message_id,
                 param1 |-> codec.param1, param2 |-> codec.param2, dest |-> codec.dest,
                 source |-> codec.source, frame |-> codec.frame,
                 short |-> UnpackShort(codec.frame), long |-> UnpackLong(codec.frame)]
    /\ UNCHANGED <<device_vars, ser_out, communications_lock, command_log,
                   status_update_id, source, destination, conn, identity_vars, pc, call,
                   depth, pend, qret, result, calls>>

NextCodec == codec_pack \/ codec_unpack

SpecCodec == InitCodec /\ [][NextCodec]_vars

(* ================================================================== *)
(* The claims                                                           *)
(* ================================================================== *)
\* the thread is idle and result[t] is how its last call, call[t], ended
Finished(t) == pc[t] = "idle" /\ result[t].status # "none"

ValidChannel(ch) == ch \in 1..4

\* a decoded frame that is not one of the two unsolicited hardware responses
IsResponse(v) ==
    /\ "message" \in DOMAIN v
    /\ v.message \notin {MGMSG_HW_RESPONSE, MGMSG_HW_RICHRESPONSE}

\* the thread is inside the window flush -> write -> read loop of query
InWindow(t) == pc[t] \in {"q_flush", "q_write", "q_read", "q_data"}

\* the ids of the frames sent on a connection, in the order sent
IssuedIds(c) == [i \in 1..Len(ser_out[c]) |-> UnpackShort(ser_out[c][i]).message]

\* the last n entries of a sequence
LastN(q, n) == IF Len(q) <= n THEN q ELSE SubSeq(q, Len(q) - n + 1, Len(q))

\* self.command_log of a connection: the attribute is found on the class
History(c) == command_log

\* C1: a query that returns has returned a response frame to its caller, however
\* many unsolicited frames (0x0080, 0x0081) it drained before it: never an absent
\* result.
C1_QueryReturnsResponse ==
    \A t \in Threads : qret[t].status = "returned" => IsResponse(qret[t].value)

\* C2: on one connection at most one thread is inside the window flush -> write ->
\* read loop, and it is the thread that holds the lock: a second caller of query
\* stays before the flush until the first has left the window.
C2_OneTransactionInFlight ==
    /\ \A t, u \in Threads :
           (t # u /\ conn[t] = conn[u]) => ~(InWindow(t) /\ InWindow(u))
    /\ \A t \in Threads : InWindow(t) => communications_lock[conn[t]] = t

\* C2 witness: one query is reading while a second caller of the same connection waits
C2_Witness ==
    \E t, u \in Threads :
        /\ t # u
        /\ conn[t] = conn[u]
        /\ pc[t] = "q_read"
        /\ pc[u] = "q_lock"

\* C3: while a query reads, the last entry of Command History is the id it sent.
C3_AppendedBeforeRead ==
    \A t \in Threads :
        pc[t] \in {"q_read", "q_data"} =>
            /\ History(conn[t]) # <<>>
            /\ History(conn[t])[Len(History(conn[t]))] = QueryId(call[t])

\* C4: Command History holds at most 20 ids, and exactly the ids of the most
\* recent min(n, 20) commands issued on the connection, in issue order.
C4_HistoryIsLastTwenty ==
    \A c \in {conn[t] : t \in Threads} :
        /\ Len(History(c)) <= command_log_maxlen
        /\ History(c) = LastN(IssuedIds(c), command_log_maxlen)

C6_HeaderRoundTrip ==
    codec.stage = "unpacked" =>
        /\ Len(codec.frame) = 6
        /\ codec.short = [message |-> codec.message_id, param1 |-> codec.param1,
                          param2 |-> codec.param2, dest |-> codec.dest,
                          source |-> codec.source]
        /\ codec.long = [message |-> codec.message_id,
                         length |-> codec.param1 + 256 * codec.param2,
                         dest |-> codec.dest, source |-> codec.source]

\* C6 witness: a header with a two-byte id and distinct, nonzero parameters was decoded
C6_Witness ==
    /\ codec.stage = "unpacked"
    /\ codec.message_id = 529
    /\ codec.param1 = 1
    /\ codec.param2 = 2
    /\ codec.dest # codec.source

C8_BadChannelTouchesNothing ==
    [][\A t \in Threads :
           (/\ calls'[t] = calls[t] + 1
            /\ call'[t].op \in {"set_channel_state", "get_channel_state"}
            /\ ~ValidChannel(call'[t].channel)) =>
               /\ pc'[t] = "idle"
               /\ result'[t].status = "raised"
               /\ UNCHANGED <<ser_in, ser_out, communications_lock, command_log>>]_vars

\* C8 witness: both calls have failed on a channel outside 1..4
C8_Witness ==
    \E t, u \in Threads :
        /\ Finished(t) /\ call[t].op = "set_channel_state" /\ call[t].channel = 5
        /\ result[t].status = "raised"
        /\ Finished(u) /\ call[u].op = "get_channel_state" /\ call[u].channel = 0
        /\ result[u].status = "raised"

\* C9: set_channel_state(channel, enabled) with a channel in 1..4 puts exactly one
\* frame on the transport: id 0x0210, param1 the channel's identity byte, param2
\* 0x01 for true and 0x02 for false.
C9_SetChannelStateSendsFrame ==
    [][\A t \in Threads :
           (/\ calls'[t] = calls[t] + 1
            /\ call'[t].op = "set_channel_state"
            /\ ValidChannel(call'[t].channel)) =>
               ser_out'[conn[t]] =
                   Append(ser_out[conn[t]],
                          PackShort(528, channel_number_to_identity[call'[t].channel],
                                    IF call'[t].state THEN 1 ELSE 2,
                                    destination[conn[t]], source[conn[t]]))]_vars

\* C10: get_hardware_info succeeds on a hardware-info response whose serial number
\* starts with two digits that are no key of the Model Table.
C10_UnknownModelSucceeds ==
    \A t \in Threads :
        (/\ Finished(t)
         /\ call[t].op = "get_hardware_info"
         /\ qret[t].status = "returned"
         /\ "data" \in DOMAIN qret[t].value
         /\ Len(qret[t].value.data) = hardware_info_size
         /\ LeadingTwo(UnpackHardwareInfo(qret[t].value.data).serial_number)
                \notin DOMAIN serial_num_to_device_types) =>
            result[t].status = "returned"

\* C11: a constructor called without a destination ends with an error: it never
\* gets as far as reading, its object is never handed to the caller, and no frame
\* is ever written on a connection whose destination is unset.
C11_NoDestinationNoConnection ==
    /\ \A c \in Conns : destination[c] = Unset => ser_out[c] = <<>>
    /\ \A t \in Threads :
           destination[conn[t]] = Unset =>
               /\ pc[t] \notin {"q_read", "q_data", "ghi_decode", "ghi_model",
                                 "ghi_channels"}
               /\ (Finished(t) /\ call[t].op = "__init__") => result[t].status = "raised"

\* C11 witness: one constructor without a destination has failed in write, and the
\* constructor of the other connection, given a destination, has returned
C11_Witness ==
    \E t, u \in Threads :
        /\ Finished(t) /\ call[t].op = "__init__"
        /\ destination[conn[t]] = Unset
        /\ result[t].exc = "AttributeError"
        /\ Finished(u) /\ call[u].op = "__init__"
        /\ destination[conn[u]] = main_destination
        /\ result[u].status = "returned"

\* C12: every call that has begun a query ends, whatever the device sends and also
\* when it never stops sending unsolicited frames; one query never nests more than
\* MaxDepth self-calls of read, so it drains at most MaxDepth + 1 frames, and a
\* query that stops at that limit ends with an error.
C12_QueryTerminates ==
    /\ [](\A t \in Threads : depth[t] <= MaxDepth)
    /\ \A t \in Threads : (pc[t] # "idle") ~> Finished(t)
    /\ [][\A t \in Threads :
              (depth[t] = MaxDepth /\ qret[t].status = "running"
                   /\ qret'[t].status # "running") =>
                  result'[t].status = "raised"]_vars

\* C12 witness: a query has ended with the interpreter's error after draining
\* frames to the limit
C12_Witness ==
    \E t \in Threads :
        /\ Finished(t)
        /\ call[t].op = "get_hardware_info"
        /\ result[t].exc = "RuntimeError"

\* C13: a header read that finds fewer than six bytes, and a payload read that
\* finds fewer bytes than the header's length field, make the query fail: the
\* frame is neither returned with short data nor counted as drained.
C13_ShortReadFails ==
    [][\A t \in Threads :
           /\ (/\ pc[t] = "q_read"
               /\ Len(ser_in[conn[t]]) < 6
               /\ pc'[t] # "q_read") => qret'[t].status = "raised"
           /\ (/\ pc[t] = "q_data"
               /\ Len(ser_in[conn[t]]) < pend[t].header.length
               /\ pc'[t] # "q_data") => qret'[t].status = "raised"]_vars

\* C14: the step in which a query fails frees the lock of its connection; every
\* caller waiting for the lock is admitted in the end; the flush of an admitted
\* query leaves nothing of what the input buffer held, and bytes leave the buffer
\* only in the flush and the reads of the query that holds the lock.
C14_FailedQueryLeavesUsable ==
    /\ [][\A t \in Threads :
              (qret[t].status = "running" /\ qret'[t].status = "raised") =>
                  communications_lock'[conn[t]] = "free"]_vars
    /\ \A t \in Threads : (pc[t] = "q_lock") ~> (pc[t] = "q_flush")
    /\ [][\A u \in Threads :
              (pc[u] = "q_flush" /\ pc'[u] # "q_flush") => ser_in'[conn[u]] = <<>>]_vars
    /\ [][\A c \in Conns :
              Len(ser_in'[c]) < Len(ser_in[c]) =>
                  \E u \in Threads :
                      /\ conn[u] = c
                      /\ communications_lock[c] = u
                      /\ pc[u] \in {"q_flush", "q_read", "q_data"}]_vars

\* C14 witness: a query has failed, bytes are left in the input buffer, and a
\* query of another caller of the connection holds the lock and is about to flush
C14_Witness ==
    \E t, u \in Threads :
        /\ t # u
        /\ conn[t] = conn[u]
        /\ Finished(t)
        /\ qret[t].status = "raised"
        /\ ser_in[conn[t]] # <<>>
        /\ pc[u] = "q_flush"
        /\ communications_lock[conn[u]] = u

\* C15: the message a read or a query returns is the frame whose header was just
\* classified, that header took the ordinary path (its id is no surprise id), and
\* the id is neither 0x0080 nor 0x0081.
C15_SurpriseFramesNotReturned ==
    [][\A t \in Threads :
           (/\ qret[t].status = "running"
            /\ qret'[t].status = "returned"
            /\ "message" \in DOMAIN qret'[t].value) =>
               LET m == qret'[t].value IN
               /\ m.message \notin {MGMSG_HW_RESPONSE, MGMSG_HW_RICHRESPONSE}
               /\ m.message \notin SurpriseIds
               /\ IF pc[t] = "q_data"
                      THEN pend[t].kind = "data" /\ pend[t].header.message = m.message
                      ELSE /\ pc[t] = "q_read"
                           /\ Len(ser_in[conn[t]]) >= 6
                           /\ UnpackLong(SubSeq(ser_in[conn[t]], 1, 6)).message = m.message]_vars

\* C15 witness: one query has returned a response frame, and another has consumed
\* an unsolicited frame and reads on
C15_Witness ==
    \E t, u \in Threads :
        /\ qret[t].status = "returned"
        /\ "message" \in DOMAIN qret[t].value
        /\ pc[u] = "q_read"
        /\ depth[u] >= 1

\* C16: a full header whose id takes the ordinary path is decoded by the test
\* (source | 0x80) = dest. When it holds the next read takes exactly length bytes
\* and the read returns the long-form message of id, length, dest, source and
\* those bytes; when it fails nothing more is read and the read returns the
\* short-form message with param1 and param2 the third and fourth header byte.
\* What the read returns is seen by the caller of query when no frame was consumed
\* before it.
C16_LayoutByAddressTest ==
    [][\A t \in Threads :
           LET c == conn[t]
               b == SubSeq(ser_in[c], 1, 6)
               h == UnpackLong(b)
               p == pend[t].header
           IN /\ (/\ pc[t] = "q_read" /\ pc'[t] # "q_read"
                  /\ Len(ser_in[c]) >= 6
                  /\ h.message \notin SurpriseIds) =>
                     /\ ser_in'[c] = SubSeq(ser_in[c], 7, Len(ser_in[c]))
                     /\ IF Or80(source[c]) = h.dest
                            THEN /\ pc'[t] = "q_data"
                                 /\ pend'[t] = [kind |-> "data", header |-> h]
                            ELSE /\ qret'[t].status = "returned"
                                 /\ depth[t] = 0 =>
                                        qret'[t].value =
                                            [message |-> h.message, param1 |-> b[3],
                                             param2 |-> b[4], dest |-> b[5],
                                             source |-> b[6]]
              /\ (/\ pc[t] = "q_data" /\ pc'[t] # "q_data"
                  /\ pend[t].kind = "data") =>
                     /\ Len(ser_in[c]) >= p.length
                     /\ ser_in'[c] = SubSeq(ser_in[c], p.length + 1, Len(ser_in[c]))
                     /\ qret'[t].status = "returned"
                     /\ depth[t] = 0 =>
                            qret'[t].value =
                                [message |-> p.message, length |-> p.length,
                                 dest |-> p.dest, source |-> p.source,
                                 data |-> SubSeq(ser_in[c], 1, p.length)]]_vars

\* the id of the last frame sent on a connection: what last() of Command History
\* reports when every sent id is appended; 0 when nothing was sent
LastIssued(c) == IF ser_out[c] = <<>> THEN 0 ELSE IssuedIds(c)[Len(ser_out[c])]

\* the thread takes a step that reads a full header with the status-update id
ReadsStatusHeader(t) ==
    /\ pc[t] = "q_read"
    /\ pc'[t] # "q_read" \/ depth'[t] # depth[t]
    /\ Len(ser_in[conn[t]]) >= 6
    /\ UnpackLong(SubSeq(ser_in[conn[t]], 1, 6)).message \in status_update_id

\* C17: a status-update frame read while the last id sent is the status-update id
\* is read with its payload and consumed: the payload read comes next, and after
\* it, with the message handed to update_status, the query is still running and
\* reads the next header.
C17_CorrelatedStatusConsumed ==
    [][\A t \in Threads :
           /\ (ReadsStatusHeader(t) /\ LastIssued(conn[t]) \in status_update_id) =>
                  /\ pc'[t] = "q_data"
                  /\ pend'[t].kind = "status"
                  /\ qret'[t].status = "running"
           /\ (pc[t] = "q_data" /\ pend[t].kind = "status" /\ pc'[t] # "q_data") =>
                  /\ pc'[t] = "q_read"
                  /\ qret'[t].status = "running"]_vars

\* C18: a status-update frame read while the last id sent is another id, or none,
\* takes the ordinary path: the query does not fail on it, and it is returned as
\* the long-form or short-form message the address test selects, not as nothing.
C18_UncorrelatedStatusReturned ==
    [][\A t \in Threads :
           (ReadsStatusHeader(t) /\ LastIssued(conn[t]) \notin status_update_id) =>
               LET b == SubSeq(ser_in[conn[t]], 1, 6) IN
               /\ qret'[t].status # "raised"
               /\ IF Or80(source[conn[t]]) = b[5]
                      THEN pc'[t] = "q_data" /\ pend'[t].kind = "data"
                      ELSE /\ qret'[t].status = "returned"
                           /\ depth[t] = 0 => qret'[t].value = UnpackShort(b)]_vars

\* C19: a query that has the lock flushes before anything else, and the flush
\* leaves the input buffer empty; its next step writes the request frame and reads
\* nothing; only then does it read a header. Bytes leave the input buffer only in
\* the flush and in the reads of the query that holds the lock, so a byte a query
\* decodes has arrived after that query's flush.
C19_FlushWriteRead ==
    [][\A t \in Threads :
           LET c == conn[t] IN
           /\ (pc[t] = "q_lock" /\ pc'[t] # "q_lock") =>
                  pc'[t] = "q_flush" /\ ser_in' = ser_in /\ ser_out' = ser_out
           /\ (pc[t] = "q_flush" /\ pc'[t] # "q_flush") =>
                  pc'[t] = "q_write" /\ ser_in'[c] = <<>> /\ ser_out' = ser_out
           /\ (pc[t] = "q_write" /\ pc'[t] # "q_write") =>
                  /\ pc'[t] = "q_read"
                  /\ ser_in' = ser_in
                  /\ ser_out'[c] =
                         Append(ser_out[c],
                                PackShort(QueryId(call[t]), QueryParam1(call[t]), 0,
                                          destination[c], source[c]))
           /\ Len(ser_in'[c]) < Len(ser_in[c]) =>
                  \E u \in Threads :
                      /\ conn[u] = c
                      /\ communications_lock[c] = u
                      /\ pc[u] \in {"q_flush", "q_read", "q_data"}
           /\ (pc[t] \in {"q_read", "q_data"} /\ pc'[t] # pc[t]) =>
                  ser_out'[c] = ser_out[c]]_vars

\* C19 witness: the only call made so far is a query that has flushed and is about
\* to write; the frame the device had sent before is gone from the input buffer
C19_Witness ==
    \E t \in Threads :
        /\ CallsMade = 1
        /\ pc[t] = "q_write"
        /\ sent >= 1
        /\ ser_in[conn[t]] = <<>>

\* C20: a step that sends on a connection puts exactly one frame of six bytes
\* there, with the connection's destination and source as its last two bytes,
\* takes nothing from any input buffer, and appends the frame's id to Command
\* History (dropping the oldest of 20).
C20_WriteEffect ==
    [][\A c \in Conns :
           ser_out'[c] # ser_out[c] =>
               LET f == ser_out'[c][Len(ser_out'[c])] IN
               /\ ser_out'[c] = Append(ser_out[c], f)
               /\ Len(f) = 6
               /\ f[5] = destination[c]
               /\ f[6] = source[c]
               /\ ser_in' = ser_in
               /\ History(c)' =
                      LastN(Append(History(c), UnpackShort(f).message), command_log_maxlen)]_vars

\* C21: a step that changes the Command History of a connection or one of its
\* cached identity fields is taken by a thread that holds the connection's lock.
C21_MutationsUnderLock ==
    [][\A c \in Conns :
           (\/ History(c)' # History(c)
            \/ serial_number'[c] # serial_number[c]
            \/ model'[c] # model[c]
            \/ number_of_channels'[c] # number_of_channels[c]) =>
               \E t \in Threads :
                   /\ conn[t] = c
                   /\ pc'[t] # pc[t]
                   /\ communications_lock[c] = t]_vars

\* C22: while a query has written its request and has not yet got its response,
\* no step puts a frame on the transport of its connection.
C22_NoFrameInsideQueryWindow ==
    [][\A t \in Threads :
           pc[t] \in {"q_read", "q_data"} =>
               ser_out'[conn[t]] = ser_out[conn[t]]]_vars

\* C23: the header read that drains a 0x0080 frame takes exactly its six bytes;
\* the header read of a 0x0081 frame takes exactly six bytes and the payload read
\* that follows takes exactly length bytes, so that what is left in the input
\* buffer starts with the next frame.
C23_DrainKeepsAlignment ==
    [][\A t \in Threads :
           LET c == conn[t]
               h == UnpackLong(SubSeq(ser_in[c], 1, 6))
           IN /\ (/\ pc[t] = "q_read"
                  /\ pc'[t] # "q_read" \/ depth'[t] # depth[t]
                  /\ Len(ser_in[c]) >= 6
                  /\ h.message \in {MGMSG_HW_RESPONSE, MGMSG_HW_RICHRESPONSE}) =>
                     ser_in'[c] = SubSeq(ser_in[c], 7, Len(ser_in[c]))
              /\ (pc[t] = "q_data" /\ pc'[t] # "q_data" /\ pend[t].kind = "rich") =>
                     /\ Len(ser_in[c]) >= pend[t].header.length
                     /\ ser_in'[c] =
                            SubSeq(ser_in[c], pend[t].header.length + 1, Len(ser_in[c]))]_vars

\* what the hardware-info responses of the device decode to
HardwareInfos ==
    {UnpackHardwareInfo(SubSeq(f, 7, Len(f))) :
         f \in Answers(PackShort(5, 0, 0, main_destination, default_source))}

\* no get_hardware_info of the connection is between its three assignments
BetweenCalls(c) ==
    \A t \in Threads : conn[t] = c => pc[t] \notin {"ghi_model", "ghi_channels"}

\* C24: whenever no get_hardware_info call is under way on a connection, its
\* serial_number, model and number_of_channels are those of one hardware-info
\* response: a call that fails has left them as they were.
C24_IdentityConsistent ==
    \A c \in Conns :
        BetweenCalls(c) =>
            \E info \in HardwareInfos :
                /\ serial_number[c] = info.serial_number
                /\ number_of_channels[c] = info.number_of_channels
                /\ LeadingTwo(info.serial_number) \in DOMAIN serial_num_to_device_types
                /\ model[c] = serial_num_to_device_types[LeadingTwo(info.serial_number)]

====
